---- MODULE Spec2Model ----
(***************************************************************************)
(* Model of eesdr_owrx_connector/connector.py: the Connector object, its   *)
(* three long-running tasks (tci_interface, the control server, the IQ     *)
(* server), the per-connection handlers handle_control and handle_iq, the  *)
(* upstream data callback tci_receive_data and the signal handler cleanup. *)
(*                                                                         *)
(* One action is one run of a coroutine between two suspension points of   *)
(* the asyncio event loop (an await that may yield).  The upstream client  *)
(* (eesdr_tci.Listener) is outside the repository: send(cmd) is modelled   *)
(* as handing cmd over (appending it to sent) followed by a suspension     *)
(* point; start()/ready() as one suspension that eventually returns.       *)
(* The receiver index of a command is the fixed args.receiver and is left  *)
(* out of the command records.                                             *)
(***************************************************************************)
EXTENDS Integers, Sequences, FiniteSets, TLC

\* ------------------------------------------------------------------ bounds
\* What the environment may do in one run; every specification below fixes
\* the record lim from these:
\*   input     the control lines clients may send
\*   ctl, iq   the connection slots of the two servers in use
\*   lines     control messages accepted, over all control connections
\*   connects  IQ connections accepted
\*   blocks    sample blocks delivered by the upstream client
MaxConnects == 2     \* Spec: IQ connections
MaxBlocks == 2       \* Spec, SpecE2E: sample blocks
MaxTunes == 1        \* Spec: accepted control messages
MaxLines == 3        \* SpecCtl: accepted control messages
FairConnects == 3    \* FairSpec: IQ connections
FairBlocks == 3      \* FairSpec: sample blocks
MaxRaceLines == 3    \* SpecRace: accepted control messages

\* --------------------------------------------------------------- constants
DefaultCenter == 14200000
DefaultRate == 96000

\* connection slots of the two servers
CtlConns == 1..2
IqConns == 1..2

\* argparse choices of --samplerate (line 130)
SupportedRates == {48000, 96000, 192000, 384000}

\* values of args.samplerate the model starts from
InitRates == {DefaultRate}

VARIABLES
    keystore,       \* self.keystore
    demand_iq,      \* self.demand_iq: "None", "clear" or "set"
    iq_packets,     \* self.iq_packets: the queue's content (empty while None)
    shutdown,       \* self.shutdown
    args,           \* self.args (the parsed options the model reads)
    sent,           \* commands handed to tci_listener.send, in order
    tcipc,          \* position of tci_interface
    woken,          \* the future of demand_iq.wait() has been resolved
    ctlpc,          \* position of each handle_control
    iqpc,           \* position of each handle_iq
    peerClosed,     \* the IQ connection is broken: the next drain raises
    delivered,      \* blocks passed to writer.write, per IQ connection
    ctl_task,       \* self.ctl_task
    iqs_task,       \* self.iqs_task
    mainpc,         \* position of start()
    lim,            \* the bounds of the environment in this run (never changes)
    ctlLog,         \* history: accepted control messages, in order
    connects,       \* history: number of IQ connections accepted
    produced,       \* history: number of blocks put by tci_receive_data
    startOwed,      \* history: a consumer connected and no IQ_START followed yet
    clearedSincePoll, \* history: demand_iq was cleared since the last poll
    lastLine,       \* history: the last line a handle_control processed
    written         \* history: every block passed to writer.write, in order

vars == << keystore, demand_iq, iq_packets, shutdown, args, sent, tcipc, woken,
           ctlpc, iqpc, peerClosed, delivered, ctl_task, iqs_task, mainpc, lim,
           ctlLog, connects, produced, startOwed, clearedSincePoll, lastLine,
           written >>

hist == << lim, ctlLog, connects, produced, startOwed, clearedSincePoll,
           lastLine, written >>

\* ------------------------------------------------------- control messages
\* A line as handle_control sees it: whether data.decode('utf-8') succeeds,
\* and the text between the colons of the stripped message.
Line(ok, fields) == [ok |-> ok, fields |-> fields]

InputLines ==
    { Line(TRUE, <<"samp_rate", "48000">>),
      Line(TRUE, <<"center_freq", "7100000">>),
      Line(TRUE, <<"samp_rate", "50000">>),
      Line(TRUE, <<"garbage">>),
      Line(TRUE, <<"gain", "48000">>),
      Line(TRUE, <<"samp_rate", "fast">>),
      Line(TRUE, <<"samp_rate", "48000", "1">>),
      Line(FALSE, <<>>) }

\* int(v) as it would be if a text that is no number gave 0
IntOf_Lenient ==
    ("48000" :> 48000) @@ ("7100000" :> 7100000) @@ ("50000" :> 50000) @@ ("fast" :> 0)

\* int(v) on the value texts of InputLines; a text outside the domain
\* raises ValueError
IntOf == ("48000" :> 48000) @@ ("7100000" :> 7100000) @@ ("50000" :> 50000)

\* ':' in msg
HasColon(line) == Len(line.fields) > 1

\* len(msg.split(':', 2))
SplitCount(line) == IF Len(line.fields) > 3 THEN 3 ELSE Len(line.fields)

\* what handle_control does with one line:
\*   "raise"  an exception reaches the outer except and the handler returns
\*   "skip"   continue
\*   "store"  keystore[k] = iv and the key's handler is awaited
Verdict(line) ==
    IF ~line.ok THEN "raise"
    ELSE IF ~HasColon(line) THEN "skip"
    ELSE IF SplitCount(line) # 2 THEN "raise"
    ELSE IF line.fields[1] \notin DOMAIN keystore THEN "skip"
    ELSE IF line.fields[2] \notin DOMAIN IntOf THEN "skip"
    ELSE "store"

\* lastLine before any line was processed
NoLine == Line(FALSE, <<"">>)

\* ------------------------------------------------------ upstream commands
\* by is a history tag: the control connection whose handler handed the
\* command over, 0 for tci_interface
Cmd(by, name, val) == [cmd |-> name, val |-> val, by |-> by]

\* update_rate / update_center: the command prepared from the keystore
UpdateRate(by, ks) == Cmd(by, "IQ_SAMPLERATE", ks["samp_rate"])
UpdateCenter(by, ks) == Cmd(by, "DDS", ks["center_freq"])

\* ks_handlers as it would be with both keys bound to update_rate
KsHandler_RateOnly(k, by, ks) == UpdateRate(by, ks)

\* self.ks_handlers
KsHandler(k, by, ks) ==
    IF k = "samp_rate" THEN UpdateRate(by, ks) ELSE UpdateCenter(by, ks)

\* ------------------------------------------------------------------- Init
\* the state after Connector() and the argument parsing of start(), lines
\* 12-17 and 134-143
Start ==
    /\ keystore \in { [center_freq |-> DefaultCenter, samp_rate |-> r] : r \in InitRates }
    /\ demand_iq = "None"
    /\ iq_packets = << >>
    /\ shutdown = FALSE
    /\ args \in { [startstop |-> b] : b \in BOOLEAN }
    /\ sent = << >>
    /\ tcipc = "connect"
    /\ woken = FALSE
    /\ ctlpc = [c \in CtlConns |-> "absent"]
    /\ iqpc = [c \in IqConns |-> "absent"]
    /\ peerClosed = [c \in IqConns |-> FALSE]
    /\ delivered = [c \in IqConns |-> << >>]
    /\ ctl_task = "serving"
    /\ iqs_task = "serving"
    /\ mainpc = "running"
    /\ ctlLog = << >>
    /\ connects = 0
    /\ produced = 0
    /\ startOwed = FALSE
    /\ clearedSincePoll = FALSE
    /\ lastLine = NoLine
    /\ written = << >>

Limits(input, ctl, iq, nl, nc, nb) ==
    [input |-> input, ctl |-> ctl, iq |-> iq,
     lines |-> nl, connects |-> nc, blocks |-> nb]

\* the control lines of the specifications about sessions
SessionLines == { Line(TRUE, <<"samp_rate", "48000">>) }

\* the control lines of the end-to-end scenario
E2ELines ==
    { Line(TRUE, <<"samp_rate", "48000">>), Line(TRUE, <<"center_freq", "7100000">>) }

\* Spec: one control connection and one IQ consumer at a time
Init == Start /\ lim = Limits(SessionLines, {1}, {1}, MaxTunes, MaxConnects, MaxBlocks)

\* SpecCtl: the control endpoint alone, with every kind of line
InitCtl == Start /\ lim = Limits(InputLines, {1}, {}, MaxLines, 0, 0)

\* SpecE2E: two control messages and one IQ consumer
InitE2E == Start /\ lim = Limits(E2ELines, {1}, {1}, 2, 1, MaxBlocks)

\* the control lines of two clients setting the same key
RaceLines ==
    { Line(TRUE, <<"samp_rate", "48000">>), Line(TRUE, <<"samp_rate", "50000">>) }

\* SpecRace: two control connections and one IQ consumer
InitRace == Start /\ lim = Limits(RaceLines, CtlConns, {1}, MaxRaceLines, 1, 0)

\* FairSpec: the IQ endpoint and the controller alone, with up to two IQ
\* consumers at a time
InitFair == Start /\ lim = Limits({}, {}, IqConns, 0, FairConnects, FairBlocks)

\* --------------------------------------------------------- handle_control
\* line 23, `while not self.shutdown`, as reached from inside the loop
CtlLoop == IF shutdown THEN "exited" ELSE "read"

\* asyncio.start_server calls handle_control for a new connection
AcceptControl(c) ==
    /\ mainpc = "running"
    /\ ctl_task = "serving"
    /\ c \in lim.ctl
    /\ ctlpc[c] = "absent"
    /\ \A d \in CtlConns : d < c => ctlpc[d] # "absent"
    /\ ctlpc' = [ctlpc EXCEPT ![c] = CtlLoop]
    /\ UNCHANGED << keystore, demand_iq, iq_packets, shutdown, args, sent, tcipc,
                    woken, iqpc, peerClosed, delivered, ctl_task, iqs_task,
                    mainpc, hist >>

\* handle_control as it would be if an unchanged value were not propagated
HandleControlLine_Dedup(c, line) ==
    /\ mainpc = "running"
    /\ ctlpc[c] = "read"
    /\ line \in lim.input
    /\ Verdict(line) = "store" => Len(ctlLog) < lim.lines
    /\ CASE Verdict(line) = "raise" ->
              /\ ctlpc' = [ctlpc EXCEPT ![c] = "exited"]
              /\ UNCHANGED << keystore, sent, ctlLog >>
         [] Verdict(line) = "skip" ->
              /\ ctlpc' = [ctlpc EXCEPT ![c] = CtlLoop]
              /\ UNCHANGED << keystore, sent, ctlLog >>
         [] Verdict(line) = "store" ->
              LET k == line.fields[1]
                  iv == IntOf[line.fields[2]]
                  ks == [keystore EXCEPT ![k] = iv]
              IN  /\ keystore' = ks
                  /\ sent' = IF keystore[k] = iv THEN sent
                             ELSE Append(sent, KsHandler(k, c, ks))
                  /\ ctlLog' = Append(ctlLog, [conn |-> c, key |-> k, val |-> iv])
                  /\ ctlpc' = [ctlpc EXCEPT ![c] = "send"]
    /\ lastLine' = line
    /\ UNCHANGED << demand_iq, iq_packets, shutdown, args, tcipc, woken, iqpc,
                    peerClosed, delivered, ctl_task, iqs_task, mainpc, lim,
                    connects, produced, startOwed, clearedSincePoll, written >>

\* handle_control as it would be if the key's handler were not awaited
\* before the next line is read
HandleControlLine_Unsent(c, line) ==
    /\ mainpc = "running"
    /\ ctlpc[c] = "read"
    /\ line \in lim.input
    /\ Verdict(line) = "store" => Len(ctlLog) < lim.lines
    /\ CASE Verdict(line) = "raise" ->
              /\ ctlpc' = [ctlpc EXCEPT ![c] = "exited"]
              /\ UNCHANGED << keystore, sent, ctlLog >>
         [] Verdict(line) = "skip" ->
              /\ ctlpc' = [ctlpc EXCEPT ![c] = CtlLoop]
              /\ UNCHANGED << keystore, sent, ctlLog >>
         [] Verdict(line) = "store" ->
              LET k == line.fields[1]
                  iv == IntOf[line.fields[2]]
                  ks == [keystore EXCEPT ![k] = iv]
              IN  /\ keystore' = ks
                  /\ sent' = sent
                  /\ ctlLog' = Append(ctlLog, [conn |-> c, key |-> k, val |-> iv])
                  /\ ctlpc' = [ctlpc EXCEPT ![c] = "send"]
    /\ lastLine' = line
    /\ UNCHANGED << demand_iq, iq_packets, shutdown, args, tcipc, woken, iqpc,
                    peerClosed, delivered, ctl_task, iqs_task, mainpc, lim, connects,
                    produced, startOwed, clearedSincePoll, written >>

\* handle_control as it would be if the command were prepared before
\* keystore[k] is assigned
HandleControlLine_Stale(c, line) ==
    /\ mainpc = "running"
    /\ ctlpc[c] = "read"
    /\ line \in lim.input
    /\ Verdict(line) = "store" => Len(ctlLog) < lim.lines
    /\ CASE Verdict(line) = "raise" ->
              /\ ctlpc' = [ctlpc EXCEPT ![c] = "exited"]
              /\ UNCHANGED << keystore, sent, ctlLog >>
         [] Verdict(line) = "skip" ->
              /\ ctlpc' = [ctlpc EXCEPT ![c] = CtlLoop]
              /\ UNCHANGED << keystore, sent, ctlLog >>
         [] Verdict(line) = "store" ->
              LET k == line.fields[1]
                  iv == IntOf[line.fields[2]]
                  ks == [keystore EXCEPT ![k] = iv]
              IN  /\ keystore' = ks
                  /\ sent' = Append(sent, KsHandler(k, c, keystore))
                  /\ ctlLog' = Append(ctlLog, [conn |-> c, key |-> k, val |-> iv])
                  /\ ctlpc' = [ctlpc EXCEPT ![c] = "send"]
    /\ lastLine' = line
    /\ UNCHANGED << demand_iq, iq_packets, shutdown, args, tcipc, woken, iqpc,
                    peerClosed, delivered, ctl_task, iqs_task, mainpc, lim, connects,
                    produced, startOwed, clearedSincePoll, written >>

\* lines 24-40: readuntil returns a line; the line is processed up to the
\* next suspension (the await of the key's handler, or the next readuntil)
HandleControlLine(c, line) ==
    /\ mainpc = "running"
    /\ ctlpc[c] = "read"
    /\ line \in lim.input
    /\ Verdict(line) = "store" => Len(ctlLog) < lim.lines
    /\ CASE Verdict(line) = "raise" ->
              /\ ctlpc' = [ctlpc EXCEPT ![c] = "exited"]
              /\ UNCHANGED << keystore, sent, ctlLog >>
         [] Verdict(line) = "skip" ->
              /\ ctlpc' = [ctlpc EXCEPT ![c] = CtlLoop]
              /\ UNCHANGED << keystore, sent, ctlLog >>
         [] Verdict(line) = "store" ->
              LET k == line.fields[1]
                  iv == IntOf[line.fields[2]]
                  ks == [keystore EXCEPT ![k] = iv]
              IN  /\ keystore' = ks
                  /\ sent' = Append(sent, KsHandler(k, c, ks))
                  /\ ctlLog' = Append(ctlLog, [conn |-> c, key |-> k, val |-> iv])
                  /\ ctlpc' = [ctlpc EXCEPT ![c] = "send"]
    /\ lastLine' = line
    /\ UNCHANGED << demand_iq, iq_packets, shutdown, args, tcipc, woken, iqpc,
                    peerClosed, delivered, ctl_task, iqs_task, mainpc, lim, connects,
                    produced, startOwed, clearedSincePoll, written >>

\* line 38: the await of the key's handler returns; back to line 23
HandleControlSent(c) ==
    /\ mainpc = "running"
    /\ ctlpc[c] = "send"
    /\ ctlpc' = [ctlpc EXCEPT ![c] = CtlLoop]
    /\ UNCHANGED << keystore, demand_iq, iq_packets, shutdown, args, sent, tcipc,
                    woken, iqpc, peerClosed, delivered, ctl_task, iqs_task,
                    mainpc, hist >>

\* line 24: the peer closed the connection, readuntil raises
\* IncompleteReadError, caught at line 41
HandleControlEof(c) ==
    /\ mainpc = "running"
    /\ ctlpc[c] = "read"
    /\ ctlpc' = [ctlpc EXCEPT ![c] = "exited"]
    /\ UNCHANGED << keystore, demand_iq, iq_packets, shutdown, args, sent, tcipc,
                    woken, iqpc, peerClosed, delivered, ctl_task, iqs_task,
                    mainpc, hist >>

\* -------------------------------------------------------------- handle_iq
\* handle_iq as it would be without the finally clause
IqFinally_KeepFlag(c) ==
    /\ iqpc' = [iqpc EXCEPT ![c] = "exited"]
    /\ UNCHANGED << demand_iq, clearedSincePoll >>

\* the finally clause as it would be if it cleared the flag only when no
\* other consumer is attached
IqFinally_LastOnly(c) ==
    /\ demand_iq' = IF \E d \in IqConns \ {c} : iqpc[d] = "get" THEN demand_iq ELSE "clear"
    /\ iqpc' = [iqpc EXCEPT ![c] = "exited"]
    /\ clearedSincePoll' = clearedSincePoll

\* lines 57-58 when the flag exists: demand_iq.clear() in the finally clause
IqFinally(c) ==
    /\ demand_iq' = "clear"
    /\ iqpc' = [iqpc EXCEPT ![c] = "exited"]
    /\ clearedSincePoll' = (clearedSincePoll \/ (tcipc = "sleep" /\ demand_iq = "set"))

\* a slot is free when no handler runs on it
IqFree(c) == iqpc[c] \in {"absent", "exited", "crashed"}

\* lines 45-51: asyncio.start_server calls handle_iq for a new connection;
\* it runs up to the first iq_packets.get()
AcceptIq(c) ==
    /\ mainpc = "running"
    /\ iqs_task = "serving"
    /\ c \in lim.iq
    /\ IqFree(c)
    /\ \A d \in IqConns : d < c => ~IqFree(d)
    /\ connects < lim.connects
    /\ connects' = connects + 1
    /\ peerClosed' = [peerClosed EXCEPT ![c] = FALSE]
    /\ delivered' = [delivered EXCEPT ![c] = << >>]
    /\ IF demand_iq = "None"
       THEN \* line 48 raises AttributeError outside the try
            /\ iqpc' = [iqpc EXCEPT ![c] = "crashed"]
            /\ UNCHANGED << demand_iq, woken, startOwed, clearedSincePoll >>
       ELSE \* demand_iq.set() resolves the future tci_interface waits on
            /\ woken' = (woken \/ tcipc = "wait")
            /\ startOwed' = TRUE
            /\ IF shutdown
               THEN IqFinally(c)
               ELSE /\ demand_iq' = "set"
                    /\ iqpc' = [iqpc EXCEPT ![c] = "get"]
                    /\ UNCHANGED clearedSincePoll
    /\ UNCHANGED << keystore, iq_packets, shutdown, args, sent, tcipc, ctlpc,
                    ctl_task, iqs_task, mainpc, lim, ctlLog, produced, lastLine,
                    written >>

\* the relay loop as it would be if get() left the block in the queue
IqRelay_Peek(c) ==
    /\ mainpc = "running"
    /\ iqpc[c] = "get"
    /\ iq_packets # << >>
    /\ iq_packets' = iq_packets
    /\ delivered' = [delivered EXCEPT ![c] = Append(@, Head(iq_packets))]
    /\ written' = Append(written, Head(iq_packets))
    /\ IF peerClosed[c] \/ shutdown
       THEN \* drain() raises (line 55), or the while condition fails
            IqFinally(c)
       ELSE UNCHANGED << demand_iq, iqpc, clearedSincePoll >>
    /\ UNCHANGED << keystore, shutdown, args, sent, tcipc, woken, ctlpc,
                    peerClosed, ctl_task, iqs_task, mainpc, lim, ctlLog, connects,
                    produced, startOwed, lastLine >>

\* lines 50-54: get() returns the oldest block, it is written and drained,
\* and the loop condition is evaluated again
IqRelay(c) ==
    /\ mainpc = "running"
    /\ iqpc[c] = "get"
    /\ iq_packets # << >>
    /\ iq_packets' = Tail(iq_packets)
    /\ delivered' = [delivered EXCEPT ![c] = Append(@, Head(iq_packets))]
    /\ written' = Append(written, Head(iq_packets))
    /\ IF peerClosed[c] \/ shutdown
       THEN \* drain() raises (line 55), or the while condition fails
            IqFinally(c)
       ELSE UNCHANGED << demand_iq, iqpc, clearedSincePoll >>
    /\ UNCHANGED << keystore, shutdown, args, sent, tcipc, woken, ctlpc,
                    peerClosed, ctl_task, iqs_task, mainpc, lim, ctlLog, connects,
                    produced, startOwed, lastLine >>

\* the consumer closes its socket (or the connection breaks): the next
\* await writer.drain() raises
IqPeerClose(c) ==
    /\ mainpc = "running"
    /\ iqpc[c] = "get"
    /\ ~peerClosed[c]
    /\ peerClosed' = [peerClosed EXCEPT ![c] = TRUE]
    /\ UNCHANGED << keystore, demand_iq, iq_packets, shutdown, args, sent, tcipc,
                    woken, ctlpc, iqpc, delivered, ctl_task, iqs_task, mainpc,
                    hist >>

\* ------------------------------------------------------- tci_receive_data
\* tci_receive_data as it would be if it put the block at the head
TciReceiveData_Front ==
    /\ mainpc = "running"
    /\ demand_iq # "None"
    /\ produced < lim.blocks
    /\ produced' = produced + 1
    /\ iq_packets' = << produced + 1 >> \o iq_packets
    /\ UNCHANGED << keystore, demand_iq, shutdown, args, sent, tcipc, woken,
                    ctlpc, iqpc, peerClosed, delivered, ctl_task, iqs_task,
                    mainpc, lim, ctlLog, connects, startOwed,
                    clearedSincePoll, lastLine, written >>

\* lines 80-81, called by the upstream client for every IQ frame once the
\* data listener is registered (line 94); blocks are numbered as they arrive
TciReceiveData ==
    /\ mainpc = "running"
    /\ demand_iq # "None"
    /\ produced < lim.blocks
    /\ produced' = produced + 1
    /\ iq_packets' = Append(iq_packets, produced + 1)
    /\ UNCHANGED << keystore, demand_iq, shutdown, args, sent, tcipc, woken,
                    ctlpc, iqpc, peerClosed, delivered, ctl_task, iqs_task,
                    mainpc, lim, ctlLog, connects, startOwed,
                    clearedSincePoll, lastLine, written >>

\* ---------------------------------------------------------- tci_interface
\* tci_listener.send(cmd) as called by tci_interface
TciSend(name, val, pc) ==
    /\ sent' = Append(sent, Cmd(0, name, val))
    /\ tcipc' = pc

\* lines 98-102: the first command of a session
TciBegin ==
    IF args.startstop
    THEN TciSend("START", 0, "START")
    ELSE TciSend("RX_ENABLE", 1, "RX_ENABLE")

\* lines 96-97: `while not self.shutdown` and demand_iq.wait(), which
\* returns without suspending when the flag is set
TciLoop ==
    /\ woken' = FALSE
    /\ IF shutdown
       THEN tcipc' = "done" /\ UNCHANGED sent
       ELSE IF demand_iq = "set"
            THEN TciBegin
            ELSE tcipc' = "wait" /\ UNCHANGED sent

\* lines 113-115: the queue is emptied
TciDrain == iq_packets' = << >>

\* lines 106-110: `while self.demand_iq.is_set()`, then IQ_STOP
TciCheckDemand ==
    /\ clearedSincePoll' = FALSE
    /\ IF demand_iq = "set"
       THEN tcipc' = "sleep" /\ UNCHANGED sent
       ELSE TciSend("IQ_STOP", 0, "IQ_STOP")

\* lines 85-97: start() and ready() return, the listeners are added, the
\* flag and the queue are created, and the loop is entered
TciReady ==
    /\ mainpc = "running"
    /\ tcipc = "connect"
    /\ demand_iq' = "clear"
    /\ iq_packets' = << >>
    /\ TciLoop
    /\ UNCHANGED << keystore, shutdown, args, ctlpc, iqpc, peerClosed, delivered,
                    ctl_task, iqs_task, mainpc, hist >>

\* line 97: the wait is over; lines 98-102
TciWake ==
    /\ mainpc = "running"
    /\ tcipc = "wait"
    /\ woken
    /\ woken' = FALSE
    /\ TciBegin
    /\ UNCHANGED << keystore, demand_iq, iq_packets, shutdown, args, ctlpc, iqpc,
                    peerClosed, delivered, ctl_task, iqs_task, mainpc, hist >>

\* line 101 returns; line 102
TciEnable ==
    /\ mainpc = "running"
    /\ tcipc = "START"
    /\ TciSend("RX_ENABLE", 1, "RX_ENABLE")
    /\ UNCHANGED << keystore, demand_iq, iq_packets, shutdown, args, woken, ctlpc,
                    iqpc, peerClosed, delivered, ctl_task, iqs_task, mainpc, hist >>

\* line 103 as it would be if it called update_center
TciRate_Center ==
    /\ mainpc = "running"
    /\ tcipc = "RX_ENABLE"
    /\ sent' = Append(sent, UpdateCenter(0, keystore))
    /\ tcipc' = "IQ_SAMPLERATE"
    /\ UNCHANGED << keystore, demand_iq, iq_packets, shutdown, args, woken, ctlpc,
                    iqpc, peerClosed, delivered, ctl_task, iqs_task, mainpc, hist >>

\* line 102 returns; line 103, update_rate
TciRate ==
    /\ mainpc = "running"
    /\ tcipc = "RX_ENABLE"
    /\ sent' = Append(sent, UpdateRate(0, keystore))
    /\ tcipc' = "IQ_SAMPLERATE"
    /\ UNCHANGED << keystore, demand_iq, iq_packets, shutdown, args, woken, ctlpc,
                    iqpc, peerClosed, delivered, ctl_task, iqs_task, mainpc, hist >>

\* line 103 returns; line 104, update_center
TciCenter ==
    /\ mainpc = "running"
    /\ tcipc = "IQ_SAMPLERATE"
    /\ sent' = Append(sent, UpdateCenter(0, keystore))
    /\ tcipc' = "DDS"
    /\ UNCHANGED << keystore, demand_iq, iq_packets, shutdown, args, woken, ctlpc,
                    iqpc, peerClosed, delivered, ctl_task, iqs_task, mainpc, hist >>

\* line 105 as it would be if it sent the stream-stop command
TciIqStart_Stop ==
    /\ mainpc = "running"
    /\ tcipc = "DDS"
    /\ TciSend("IQ_STOP", 0, "IQ_START")
    /\ startOwed' = FALSE
    /\ UNCHANGED << keystore, demand_iq, iq_packets, shutdown, args, woken, ctlpc,
                    iqpc, peerClosed, delivered, ctl_task, iqs_task, mainpc, lim,
                    ctlLog, connects, produced, clearedSincePoll, lastLine,
                    written >>

\* line 104 returns; line 105
TciIqStart ==
    /\ mainpc = "running"
    /\ tcipc = "DDS"
    /\ TciSend("IQ_START", 0, "IQ_START")
    /\ startOwed' = FALSE
    /\ UNCHANGED << keystore, demand_iq, iq_packets, shutdown, args, woken, ctlpc,
                    iqpc, peerClosed, delivered, ctl_task, iqs_task, mainpc, lim,
                    ctlLog, connects, produced, clearedSincePoll, lastLine,
                    written >>

\* line 105 returns, or the sleep of line 107 ends; line 106
TciPoll ==
    /\ mainpc = "running"
    /\ tcipc \in {"IQ_START", "sleep"}
    /\ TciCheckDemand
    /\ UNCHANGED << keystore, demand_iq, iq_packets, shutdown, args, woken, ctlpc,
                    iqpc, peerClosed, delivered, ctl_task, iqs_task, mainpc, lim,
                    ctlLog, connects, produced, startOwed, lastLine, written >>

\* line 110 returns; lines 111-115 and back to line 96
TciStopped ==
    /\ mainpc = "running"
    /\ tcipc = "IQ_STOP"
    /\ IF args.startstop
       THEN TciSend("STOP", 0, "STOP") /\ UNCHANGED << iq_packets, woken >>
       ELSE TciDrain /\ TciLoop
    /\ UNCHANGED << keystore, demand_iq, shutdown, args, ctlpc, iqpc, peerClosed,
                    delivered, ctl_task, iqs_task, mainpc, hist >>

\* line 112 returns; lines 113-115 and back to line 96
TciStopDone ==
    /\ mainpc = "running"
    /\ tcipc = "STOP"
    /\ TciDrain
    /\ TciLoop
    /\ UNCHANGED << keystore, demand_iq, shutdown, args, ctlpc, iqpc, peerClosed,
                    delivered, ctl_task, iqs_task, mainpc, hist >>

\* ------------------------------------------------------- cleanup and start
\* cleanup as it would be if it cancelled tci_task as well
Cleanup_CancelTci ==
    /\ mainpc = "running"
    /\ ~shutdown
    /\ shutdown' = TRUE
    /\ ctl_task' = "cancelled"
    /\ iqs_task' = "cancelled"
    /\ tcipc' = "done"
    /\ UNCHANGED << keystore, demand_iq, iq_packets, args, sent, woken,
                    ctlpc, iqpc, peerClosed, delivered, mainpc, hist >>

\* lines 117-122: the handler of SIGTERM and SIGINT
Cleanup ==
    /\ mainpc = "running"
    /\ ~shutdown
    /\ shutdown' = TRUE
    /\ ctl_task' = "cancelled"
    /\ iqs_task' = "cancelled"
    /\ UNCHANGED << keystore, demand_iq, iq_packets, args, sent, tcipc, woken,
                    ctlpc, iqpc, peerClosed, delivered, mainpc, hist >>

\* lines 145-161: the three awaited tasks are done and start() returns;
\* asyncio.run then cancels the handlers still running, and the finally
\* clause of handle_iq runs
StartReturn ==
    /\ mainpc = "running"
    /\ tcipc = "done"
    /\ ctl_task = "cancelled"
    /\ iqs_task = "cancelled"
    /\ mainpc' = "returned"
    /\ ctlpc' = [c \in CtlConns |-> IF ctlpc[c] = "absent" THEN "absent" ELSE "exited"]
    /\ iqpc' = [c \in IqConns |-> IF iqpc[c] = "get" THEN "exited" ELSE iqpc[c]]
    /\ demand_iq' = IF \E c \in IqConns : iqpc[c] = "get" THEN "clear" ELSE demand_iq
    /\ UNCHANGED << keystore, iq_packets, shutdown, args, sent, tcipc, woken,
                    peerClosed, delivered, ctl_task, iqs_task, hist >>

\* ------------------------------------------------------------------- Next
Next ==
    \/ \E c \in CtlConns : AcceptControl(c)
    \/ \E c \in CtlConns, line \in InputLines : HandleControlLine(c, line)
    \/ \E c \in CtlConns : HandleControlSent(c)
    \/ \E c \in CtlConns : HandleControlEof(c)
    \/ \E c \in IqConns : AcceptIq(c)
    \/ \E c \in IqConns : IqRelay(c)
    \/ \E c \in IqConns : IqPeerClose(c)
    \/ TciReceiveData
    \/ TciReady
    \/ TciWake
    \/ TciEnable
    \/ TciRate
    \/ TciCenter
    \/ TciIqStart
    \/ TciPoll
    \/ TciStopped
    \/ TciStopDone
    \/ Cleanup
    \/ StartReturn

Spec == Init /\ [][Next]_vars

\* the control endpoint while tci_interface connects and waits
NextCtl ==
    \/ \E c \in CtlConns : AcceptControl(c)
    \/ \E c \in CtlConns, line \in InputLines : HandleControlLine(c, line)
    \/ \E c \in CtlConns : HandleControlSent(c)
    \/ \E c \in CtlConns : HandleControlEof(c)
    \/ TciReady
    \/ Cleanup
    \/ StartReturn

SpecCtl == InitCtl /\ [][NextCtl]_vars

SpecE2E == InitE2E /\ [][Next]_vars

\* the control endpoint and the start of a session, with no upstream data
\* and no signal
NextRace ==
    \/ \E c \in CtlConns : AcceptControl(c)
    \/ \E c \in CtlConns, line \in InputLines : HandleControlLine(c, line)
    \/ \E c \in CtlConns : HandleControlSent(c)
    \/ \E c \in CtlConns : HandleControlEof(c)
    \/ \E c \in IqConns : AcceptIq(c)
    \/ TciReady
    \/ TciWake
    \/ TciEnable
    \/ TciRate
    \/ TciCenter
    \/ TciIqStart
    \/ TciPoll

SpecRace == InitRace /\ [][NextRace]_vars

\* The event loop runs every task that is ready: a coroutine whose await
\* has completed is resumed.  Nothing is assumed of the clients, the
\* upstream data or the signals.
Fairness ==
    /\ WF_vars(TciReady)
    /\ WF_vars(TciWake)
    /\ WF_vars(TciEnable)
    /\ WF_vars(TciRate)
    /\ WF_vars(TciCenter)
    /\ WF_vars(TciIqStart)
    /\ WF_vars(TciPoll)
    /\ WF_vars(TciStopped)
    /\ WF_vars(TciStopDone)
    /\ WF_vars(StartReturn)
    /\ \A c \in IqConns : WF_vars(IqRelay(c))

\* the IQ endpoint, the controller and the signal handler
NextIq ==
    \/ \E c \in IqConns : AcceptIq(c)
    \/ \E c \in IqConns : IqRelay(c)
    \/ \E c \in IqConns : IqPeerClose(c)
    \/ TciReceiveData
    \/ TciReady
    \/ TciWake
    \/ TciEnable
    \/ TciRate
    \/ TciCenter
    \/ TciIqStart
    \/ TciPoll
    \/ TciStopped
    \/ TciStopDone
    \/ Cleanup
    \/ StartReturn

FairSpec == InitFair /\ [][NextIq]_vars /\ Fairness

\* ------------------------------------------------------------------ claims
\* commands handed over by the control handlers, in order
CtlSent == SelectSeq(sent, LAMBDA e : e.by # 0)

\* commands handed over by tci_interface, in order
TciSent == SelectSeq(sent, LAMBDA e : e.by = 0)

\* the last value ctlLog accepted for key k, or the value start() stored
LastAccepted(k) ==
    LET idx == { i \in DOMAIN ctlLog : ctlLog[i].key = k }
    IN  IF idx = {}
        THEN (IF k = "samp_rate" THEN DefaultRate ELSE DefaultCenter)
        ELSE ctlLog[CHOOSE i \in idx : \A j \in idx : j <= i].val

\* C1: after any sequence of valid key:value messages the keystore holds the
\* last accepted value of each key, and the commands handed upstream by the
\* control handlers are, one per accepted message and in the same order, the
\* command of the message's key with the message's value (no deduplication),
\* whether or not tci_interface has connected.
C1_LastValueOnePropagation ==
    /\ \A k \in DOMAIN keystore : keystore[k] = LastAccepted(k)
    /\ Len(CtlSent) = Len(ctlLog)
    /\ \A i \in DOMAIN ctlLog :
          /\ CtlSent[i].cmd = (IF ctlLog[i].key = "samp_rate" THEN "IQ_SAMPLERATE" ELSE "DDS")
          /\ CtlSent[i].val = ctlLog[i].val

\* C1 witness: the same message accepted twice in a row, both propagated,
\* before tci_interface has connected to the upstream client
C1_Witness ==
    /\ tcipc = "connect"
    /\ Len(ctlLog) = 2
    /\ ctlLog[1] = ctlLog[2]
    /\ Len(CtlSent) = 2

\* the lines the control endpoint is to reject
NoColon(line) == line.ok /\ Len(line.fields) = 1
ManyColons(line) == line.ok /\ Len(line.fields) > 2
Undecodable(line) == ~line.ok
UnknownKey(line) == line.ok /\ Len(line.fields) = 2 /\ line.fields[1] \notin DOMAIN keystore
NonInteger(line) ==
    /\ line.ok /\ Len(line.fields) = 2
    /\ line.fields[1] \in DOMAIN keystore
    /\ line.fields[2] \notin DOMAIN IntOf
Rejected(line) ==
    \/ NoColon(line) \/ ManyColons(line) \/ Undecodable(line)
    \/ UnknownKey(line) \/ NonInteger(line)

\* C2 (as claimed): a handler that reads a malformed line (no colon, more
\* than one colon, undecodable bytes), an unknown key or a non-integer value
\* before shutdown ignores it and goes on to read the next line.
C2_RejectedLineKeepsConnection ==
    [][ \A c \in CtlConns, line \in InputLines :
          (HandleControlLine(c, line) /\ Rejected(line) /\ ~shutdown)
              => ctlpc'[c] = "read" ]_vars

\* the commands of one session of tci_interface, in order
SessionPattern ==
    IF args.startstop
    THEN << "START", "RX_ENABLE", "IQ_SAMPLERATE", "DDS", "IQ_START", "IQ_STOP", "STOP" >>
    ELSE << "RX_ENABLE", "IQ_SAMPLERATE", "DDS", "IQ_START", "IQ_STOP" >>

\* the commands tci_interface has handed over are whole sessions followed by
\* the beginning of one
SessionOrder ==
    \A i \in DOMAIN TciSent :
        TciSent[i].cmd = SessionPattern[((i - 1) % Len(SessionPattern)) + 1]

\* C3 (as claimed): whenever a consumer connects and handle_iq sets the
\* flag, tci_interface subsequently issues the start sequence, ending with
\* stream-start (at the latest when the signal has come or a consumer's
\* connection has ended).
C3_ConnectLeadsToStart ==
    startOwed ~>
        \/ ~startOwed
        \/ shutdown
        \/ \E c \in IqConns : iqpc[c] = "exited" \/ peerClosed[c]

\* C3 (amended): the commands of tci_interface come in the order device-start
\* (only with the start/stop option), receiver-enable, sample-rate,
\* center-frequency, stream-start, with no stream-start before the others;
\* and a consumer that connects while tci_interface waits for demand makes it
\* issue them up to stream-start.
C3_IdleConnectStartsInOrder ==
    /\ []SessionOrder
    /\ (tcipc = "wait" /\ woken) ~> (tcipc = "IQ_START")

\* C3 witness: a consumer is attached and the session its connect began has
\* reached stream-start, with the start/stop option on
C3_Witness ==
    /\ tcipc = "IQ_START"
    /\ args.startstop
    /\ \E c \in IqConns : iqpc[c] = "get"
    /\ Len(TciSent) = Len(SessionPattern) - 2

\* C4 (as claimed): at the first poll after the flag was cleared during
\* Streaming, tci_interface issues stream-stop, whatever happened in between;
\* and when the Stopping sequence is over the queue is empty.
C4_StopWithinOnePoll ==
    [][ /\ (TciPoll /\ clearedSincePoll) => tcipc' = "IQ_STOP"
        /\ (tcipc \in {"IQ_STOP", "STOP"} /\ tcipc' \notin {"IQ_STOP", "STOP"})
              => iq_packets' = << >> ]_vars

\* C5 (as claimed): while tci_interface waits for demand the queue is empty.
C5_IdleBufferEmpty == tcipc = "wait" => iq_packets = << >>

\* C6 (as claimed): a block is written to a consumer only between the
\* stream-start and the stream-stop of a session.
C6_WriteOnlyWhileStreaming ==
    [][ \A c \in IqConns : IqRelay(c) => tcipc \in {"IQ_START", "sleep"} ]_vars

\* C7: the blocks written to a consumer are blocks tci_receive_data put, in
\* the order it put them, each at most once (blocks are numbered as they
\* arrive), and none of them is still queued.
C7_RelayedInArrivalOrder ==
    \A c \in IqConns :
        /\ \A i \in DOMAIN delivered[c] : delivered[c][i] \in 1..produced
        /\ \A i, j \in DOMAIN delivered[c] : i < j => delivered[c][i] < delivered[c][j]
        /\ \A i \in DOMAIN delivered[c], j \in DOMAIN iq_packets :
              delivered[c][i] < iq_packets[j]

\* C7 witness: two blocks written to one consumer
C7_Witness == \E c \in IqConns : Len(delivered[c]) >= 2

\* every stream-start of tci_interface is followed by a stream-stop
StartsStopped ==
    \A i \in DOMAIN TciSent :
        TciSent[i].cmd = "IQ_START" =>
            \E j \in DOMAIN TciSent : j > i /\ TciSent[j].cmd = "IQ_STOP"

\* C8: tci_interface finishes only from the head of its loop (after the
\* setup or after the drain), never in a session: when it finishes every
\* stream-start it issued has its stream-stop and the queue is empty.
C8_ExitsOnlyFromIdle ==
    [][ (tcipc # "done" /\ tcipc' = "done") =>
            /\ tcipc \in {"connect", "IQ_STOP", "STOP"}
            /\ StartsStopped'
            /\ iq_packets' = << >> ]_vars

\* C8 witness: the signal came during a session (the relay loop ended
\* without a broken connection), the session was stopped, and tci_interface
\* has finished
C8_Witness ==
    /\ tcipc = "done"
    /\ \E c \in IqConns : iqpc[c] = "exited" /\ ~peerClosed[c]
    /\ \E i \in DOMAIN TciSent : TciSent[i].cmd = "IQ_STOP"

\* C9 (as claimed, the case of an idle controller): after the signal, with
\* tci_interface waiting for demand and no consumer attached, start()
\* eventually returns.
C9_IdleShutdownReturns ==
    (shutdown /\ tcipc = "wait" /\ \A c \in IqConns : iqpc[c] # "get")
        ~> (mainpc = "returned")

\* the commands of sent without the history tag
Plain(name, val) == [cmd |-> name, val |-> val]
Untagged == [i \in DOMAIN sent |-> Plain(sent[i].cmd, sent[i].val)]

\* the end-to-end scenario is over: samp_rate:48000 then center_freq:7100000
\* were accepted before tci_interface began the session, one consumer
\* connected and closed, and the session is over
E2EDone ==
    /\ Len(ctlLog) = 2
    /\ ctlLog[1].key = "samp_rate" /\ ctlLog[1].val = 48000
    /\ ctlLog[2].key = "center_freq" /\ ctlLog[2].val = 7100000
    /\ Len(sent) > 2 /\ sent[1].by # 0 /\ sent[2].by # 0
    /\ connects = 1
    /\ iqpc[1] = "exited" /\ peerClosed[1]
    /\ tcipc = "wait"

\* C10 (as claimed): the commands sent upstream in the scenario are exactly
\* rate, receiver-enable, rate, frequency, stream-start, stream-stop.
C10_SequenceAsClaimed ==
    E2EDone =>
        Untagged = << Plain("IQ_SAMPLERATE", 48000), Plain("RX_ENABLE", 1),
                      Plain("IQ_SAMPLERATE", 48000), Plain("DDS", 7100000),
                      Plain("IQ_START", 0), Plain("IQ_STOP", 0) >>

\* C10 (amended): the sequence also holds the frequency command of the
\* second control message, and device-start and device-stop around the
\* session when the start/stop option is on.
C10_SequenceWithFrequency ==
    E2EDone =>
        Untagged =
            << Plain("IQ_SAMPLERATE", 48000), Plain("DDS", 7100000) >>
            \o (IF args.startstop THEN << Plain("START", 0) >> ELSE << >>)
            \o << Plain("RX_ENABLE", 1), Plain("IQ_SAMPLERATE", 48000),
                  Plain("DDS", 7100000), Plain("IQ_START", 0), Plain("IQ_STOP", 0) >>
            \o (IF args.startstop THEN << Plain("STOP", 0) >> ELSE << >>)

\* C10 witness: the scenario is over, without the start/stop option
C10_Witness == E2EDone /\ ~args.startstop

\* C11: whenever the relay loop of a handle_iq ends (a failed drain, the
\* shutdown flag seen at line 50, or cancellation when start() has
\* returned), demand_iq is clear right afterwards, other consumers attached
\* or not.
C11_ExitClearsFlag ==
    [][ \A c \in IqConns :
          (iqpc[c] = "get" /\ iqpc'[c] # "get") => demand_iq' = "clear" ]_vars

\* C11 witness: of two consumers attached at once one has left, the other
\* is still attached, and the flag is clear
C11_Witness ==
    /\ \E c, d \in IqConns : iqpc[c] = "exited" /\ iqpc[d] = "get"
    /\ connects = 2
    /\ demand_iq = "clear"

\* C12 (as claimed): whenever the IQ server accepts a connection, demand_iq
\* is set at once and the relay loop of the connection starts, also while
\* tci_interface is still connecting.
C12_AcceptSetsFlag ==
    [][ \A c \in IqConns :
          AcceptIq(c) => (demand_iq' = "set" /\ iqpc'[c] = "get") ]_vars

\* the commands handed over by the handler of control connection c, and the
\* messages accepted on it, in order
SentBy(c) == SelectSeq(sent, LAMBDA e : e.by = c)
AcceptedOn(c) == SelectSeq(ctlLog, LAMBDA m : m.conn = c)

\* C13: on each control connection the commands handed upstream are, one
\* for one and in the same order, those of the messages accepted on it, and
\* the command of a message is handed over before the handler reads again:
\* in no state is an accepted message of the connection without its command.
C13_PerConnectionOrder ==
    \A c \in CtlConns :
        /\ Len(SentBy(c)) = Len(AcceptedOn(c))
        /\ \A i \in DOMAIN AcceptedOn(c) :
              /\ SentBy(c)[i].cmd =
                    (IF AcceptedOn(c)[i].key = "samp_rate" THEN "IQ_SAMPLERATE" ELSE "DDS")
              /\ SentBy(c)[i].val = AcceptedOn(c)[i].val

\* C13 witness: two connections interleaved, one of them with two different
\* messages, all propagated and both handlers reading again
C13_Witness ==
    /\ Len(ctlLog) = 3
    /\ ctlLog[1].conn = 1 /\ ctlLog[2].conn = 2 /\ ctlLog[3].conn = 1
    /\ ctlLog[1].val # ctlLog[3].val
    /\ \A c \in CtlConns : ctlpc[c] = "read"

\* the lines of InputLines without a colon, with an unknown key, or with a
\* value that is no integer
LinesToReject ==
    { Line(TRUE, <<"garbage">>), Line(TRUE, <<"gain", "48000">>),
      Line(TRUE, <<"samp_rate", "fast">>) }

\* C14: a line without a colon, with an unknown key or with a value that
\* does not parse as an integer leaves the keystore as it was and hands no
\* command upstream; and every value of the keystore is an integer.
C14_RejectedLineNoEffect ==
    /\ [](\A k \in DOMAIN keystore : keystore[k] \in Int)
    /\ [][ \A c \in CtlConns, line \in LinesToReject :
             HandleControlLine(c, line) => UNCHANGED << keystore, sent >> ]_vars

\* C14 witness: after one accepted message a line with a non-integer value
\* was processed; the keystore still holds the accepted value and only its
\* command was handed over
C14_Witness ==
    /\ lastLine = Line(TRUE, <<"samp_rate", "fast">>)
    /\ Len(ctlLog) = 1 /\ ctlLog[1].key = "samp_rate"
    /\ keystore["samp_rate"] = ctlLog[1].val
    /\ Len(sent) = 1

\* C15 (as claimed): the samp_rate of the keystore, and with it the value
\* of every sample-rate command handed upstream, is one of the supported
\* rates.
C15_RateSupported ==
    /\ keystore["samp_rate"] \in SupportedRates
    /\ \A i \in DOMAIN sent :
          sent[i].cmd = "IQ_SAMPLERATE" => sent[i].val \in SupportedRates

\* C16 (as claimed): once cleanup has set the shutdown flag no connection
\* is accepted, no control message changes the keystore or hands a command
\* upstream, and no block is written to a consumer.
C16_NothingAfterShutdown ==
    [][ shutdown =>
          /\ connects' = connects
          /\ \A c \in CtlConns : ctlpc[c] = "absent" => ctlpc'[c] = "absent"
          /\ keystore' = keystore
          /\ CtlSent' = CtlSent
          /\ written' = written ]_vars

\* the stream-start and stream-stop commands of tci_interface, in order
StartStops == SelectSeq(TciSent, LAMBDA e : e.cmd \in {"IQ_START", "IQ_STOP"})

\* C17: in the commands of tci_interface stream-start and stream-stop
\* alternate, beginning with stream-start.
C17_StartStopAlternate ==
    \A i \in DOMAIN StartStops :
        StartStops[i].cmd = (IF i % 2 = 1 THEN "IQ_START" ELSE "IQ_STOP")

\* C17 witness: two sessions started and stopped, with a control message
\* accepted in between
C17_Witness ==
    /\ Len(StartStops) = 4
    /\ \E i \in DOMAIN sent :
          /\ sent[i].by # 0
          /\ \E j, k \in DOMAIN sent :
                j < i /\ i < k /\ sent[j].cmd = "IQ_STOP" /\ sent[k].cmd = "IQ_START"

\* C18: whenever demand_iq is set, the relay loop of at least one handle_iq
\* is running.
C18_FlagImpliesConsumer ==
    demand_iq = "set" => \E c \in IqConns : iqpc[c] = "get"

\* C18 witness: the flag is set with two consumers attached, after an
\* earlier consumer has come and gone
C18_Witness ==
    /\ demand_iq = "set"
    /\ connects = 3
    /\ \A c \in IqConns : iqpc[c] = "get"
    /\ written # << >>

\* C19: with several consumers on the one queue, a block put by
\* tci_receive_data is written at most once and to one consumer only; a
\* block is at any moment still queued, written once, or gone with the
\* drain of lines 113-115.
C19_EachBlockOnce ==
    /\ \A i, j \in DOMAIN written : i # j => written[i] # written[j]
    /\ \A i \in DOMAIN written : written[i] \in 1..produced
    /\ \A i \in DOMAIN written, j \in DOMAIN iq_packets : written[i] # iq_packets[j]
    /\ \A i, j \in DOMAIN iq_packets : i # j => iq_packets[i] # iq_packets[j]
    /\ \A c, d \in IqConns :
          c # d => \A i \in DOMAIN delivered[c], j \in DOMAIN delivered[d] :
                       delivered[c][i] # delivered[d][j]

\* C19 witness: two consumers attached at once have each been written one
\* block, and a third block is gone with the drain
C19_Witness ==
    /\ \A c \in IqConns : Len(delivered[c]) = 1
    /\ Len(written) = 2
    /\ produced = 3
    /\ iq_packets = << >>

\* the upstream command of a keystore key
CmdOf(k) == IF k = "samp_rate" THEN "IQ_SAMPLERATE" ELSE "DDS"

\* the positions in sent of the commands of key k
SentFor(k) == { i \in DOMAIN sent : sent[i].cmd = CmdOf(k) }

\* C20: a sample-rate or center-frequency command carries the keystore
\* value of its key when it is handed over: in every state (so also when no
\* propagation is in flight) the last command handed over for a key has the
\* key's current value, with two control connections and the start sequence
\* of tci_interface setting and sending the same key.
C20_LastCommandIsCurrent ==
    \A k \in DOMAIN keystore :
        SentFor(k) # {} =>
            sent[CHOOSE i \in SentFor(k) : \A j \in SentFor(k) : j <= i].val = keystore[k]

\* C20 witness: one connection set the rate, tci_interface sent the rate in
\* its start sequence, the other connection set a different rate, and no
\* propagation is in flight
C20_Witness ==
    /\ \A c \in CtlConns : ctlpc[c] # "send"
    /\ tcipc \in {"IQ_START", "sleep"}
    /\ \E i, j, k \in SentFor("samp_rate") :
          /\ i < j /\ j < k
          /\ sent[i].by = 1 /\ sent[j].by = 0 /\ sent[k].by = 2
          /\ sent[i].val # sent[k].val
          /\ sent[j].val = sent[i].val

====
